---------------------------- MODULE Spec2Model ----------------------------
(***************************************************************************)
(* Model of the duplex-sponge Fiat-Shamir challenger                       *)
(* (challenger/src/duplex_challenger.rs) and of the AVX2 internal linear   *)
(* layer of Poseidon2 over KoalaBear                                       *)
(* (koala-bear/src/x86_64_avx2/poseidon2.rs).                              *)
(*                                                                         *)
(* A DuplexChallenger<F, P, WIDTH, RATE> is a record; every method is an   *)
(* operator on that record, translated statement by statement, and every  *)
(* public call is one action.  A panic (assert!, debug_assert!, expect)    *)
(* ends the process: it is recorded in the field `panic` and no call is    *)
(* enabled afterwards.                                                     *)
(*                                                                         *)
(* Field elements are written as their canonical representatives           *)
(* 0 .. ORDER_U64-1.  Sequences are 1-based: Rust's index i is i+1 here.   *)
(***************************************************************************)
EXTENDS Integers, Sequences, FiniteSets, TLC

VARIABLES
    ORDER_U64,          \* F::ORDER_U64 of the instantiation's field
    WIDTH,              \* const generic WIDTH
    RATE,               \* const generic RATE
    debug_assertions,   \* whether the build keeps debug_assert!
    driver,             \* who calls: "any" caller or the unit test's script
    challenger,         \* the DuplexChallenger under study
    ret,                \* what the last call on `challenger` returned
    last,               \* the last call: its name and its arguments
    hist,               \* observer: the calls made since new(), while they
                        \* have the shape observe* sample*
    layer               \* the internal layer under study: the array passed
                        \* to diagonal_mul / add_sum, the row sum, and how
                        \* far the two calls have got

vars == << ORDER_U64, WIDTH, RATE, debug_assertions, driver, challenger, ret,
           last, hist, layer >>

config == << ORDER_U64, WIDTH, RATE, debug_assertions, driver >>

-----------------------------------------------------------------------------
(* Bounds of the model *)

\* widest state of the small instantiations
MaxWidth == 3
\* order of the field of the small instantiations
SmallOrder == 3
\* highest extension degree sampled
MaxDegree == 2
\* highest in-word bit count passed to sample_bits
MaxBits == 2
\* longest array / digest / inner or outer vector observed in one call
MaxLen == 2
\* order of the field that stands in for the unit test's Goldilocks, whose
\* order 2^64 - 2^32 + 1 is beyond TLC's integers; the test only builds the
\* elements 0 .. 11 and the challenger does no arithmetic on them
TestOrder == 13
\* with RATE = 0 nothing drains input_buffer: calls are made while it
\* holds at most this many elements
MaxPending == 2

(* Constants of the program *)

\* usize::BITS on the 64-bit targets the AVX2 code is built for
USIZE_BITS == 64
\* F::default(), the zero element
Default == 0
\* the unit test's instantiation and script
TEST_WIDTH == 24
TEST_RATE == 16
TEST_OBSERVED == 12
TEST_SAMPLES == 16

-----------------------------------------------------------------------------
(* Helpers *)

Max(a, b) == IF a >= b THEN a ELSE b

\* ceil(a / b) for a >= 0 and b >= 1
CeilDiv(a, b) == (a + b - 1) \div b

F == 0 .. (ORDER_U64 - 1)

RECURSIVE Pow2(_)
Pow2(n) == IF n = 0 THEN 1 ELSE 2 * Pow2(n - 1)

\* x & y on non-negative integers, bit by bit
RECURSIVE BitAnd(_, _)
BitAnd(x, y) ==
    IF x = 0 \/ y = 0 THEN 0
    ELSE (IF x % 2 = 1 /\ y % 2 = 1 THEN 1 ELSE 0) + 2 * BitAnd(x \div 2, y \div 2)

\* all sequences over S of length 0 .. n
SeqsUpTo(S, n) == UNION { [1 .. k -> S] : k \in 0 .. n }

NoPanic == "none"

\* no internal layer is being computed
NoLayer == [pc |-> "none", input |-> << >>, sum |-> << >>, x |-> << >>]

-----------------------------------------------------------------------------
(* The permutation P: an input of the instantiation *)

\* TestPermutation::permute_mut: input.reverse()
reverse(input) == [i \in 1 .. Len(input) |-> input[Len(input) + 1 - i]]

\* a second bijection of F^WIDTH that mixes positions and values:
\* rotate left by one and add the (1-based) index
rotate_add(input) ==
    [i \in 1 .. Len(input) |-> (input[(i % Len(input)) + 1] + i) % ORDER_U64]

PermutationKinds == {"reverse", "rotate_add"}

\* self.permutation.permute_mut(&mut state)
permute_mut(permutation, state) ==
    IF permutation = "reverse" THEN reverse(state) ELSE rotate_add(state)

-----------------------------------------------------------------------------
(* DuplexChallenger *)

\* new with the output buffer filled from the initial state
new_prefilled(permutation) ==
    [ sponge_state  |-> [i \in 1 .. WIDTH |-> Default],
      input_buffer  |-> << >>,
      output_buffer |-> [i \in 1 .. RATE |-> Default],
      permutation   |-> permutation,
      panic         |-> NoPanic,
      nperm         |-> 0,
      peak          |-> 0,
      fresh         |-> FALSE ]

\* DuplexChallenger::new.  Beside the struct's fields the record carries
\* the panic that ended the process and three observers: nperm counts the
\* permute_mut calls and peak is the longest input_buffer of the current
\* call; fresh tells that permute_mut ran after the latest push.
new(permutation) ==
    [ sponge_state  |-> [i \in 1 .. WIDTH |-> Default],
      input_buffer  |-> << >>,
      output_buffer |-> << >>,
      permutation   |-> permutation,
      panic         |-> NoPanic,
      nperm         |-> 0,
      peak          |-> 0,
      fresh         |-> FALSE ]

\* duplexing that reads input_buffer without draining it
duplexing_no_drain(self) ==
    IF ~(Len(self.input_buffer) <= RATE)
    THEN [self EXCEPT !.panic = "assertion failed: self.input_buffer.len() <= RATE"]
    ELSE LET n        == Len(self.input_buffer)
             absorbed == [i \in 1 .. WIDTH |->
                            IF i <= n THEN self.input_buffer[i]
                                      ELSE self.sponge_state[i]]
             permuted == permute_mut(self.permutation, absorbed)
         IN  [self EXCEPT !.sponge_state  = permuted,
                          !.output_buffer = SubSeq(permuted, 1, RATE),
                          !.nperm         = @ + 1,
                          !.fresh         = TRUE]

\* duplexing without its assertion
duplexing_unchecked(self) ==
    LET n        == Len(self.input_buffer)
        absorbed == [i \in 1 .. WIDTH |->
                       IF i <= n THEN self.input_buffer[i]
                                 ELSE self.sponge_state[i]]
        permuted == permute_mut(self.permutation, absorbed)
    IN  [self EXCEPT !.sponge_state  = permuted,
                     !.input_buffer  = << >>,
                     !.output_buffer = SubSeq(permuted, 1, RATE),
                     !.nperm         = @ + 1,
                     !.fresh         = TRUE]

\* duplexing that resets the positions it does not overwrite
duplexing_zeroing(self) ==
    IF ~(Len(self.input_buffer) <= RATE)
    THEN [self EXCEPT !.panic = "assertion failed: self.input_buffer.len() <= RATE"]
    ELSE LET n        == Len(self.input_buffer)
             absorbed == [i \in 1 .. WIDTH |->
                            IF i <= n THEN self.input_buffer[i] ELSE Default]
             permuted == permute_mut(self.permutation, absorbed)
         IN  [self EXCEPT !.sponge_state  = permuted,
                          !.input_buffer  = << >>,
                          !.output_buffer = SubSeq(permuted, 1, RATE),
                          !.nperm         = @ + 1,
                          !.fresh         = TRUE]

\* duplexing that refills output_buffer from the end of the state
duplexing_tail_refill(self) ==
    IF ~(Len(self.input_buffer) <= RATE)
    THEN [self EXCEPT !.panic = "assertion failed: self.input_buffer.len() <= RATE"]
    ELSE LET n        == Len(self.input_buffer)
             absorbed == [i \in 1 .. WIDTH |->
                            IF i <= n THEN self.input_buffer[i]
                                      ELSE self.sponge_state[i]]
             permuted == permute_mut(self.permutation, absorbed)
         IN  [self EXCEPT !.sponge_state  = permuted,
                          !.input_buffer  = << >>,
                          !.output_buffer = SubSeq(permuted, WIDTH - RATE + 1, WIDTH),
                          !.nperm         = @ + 1,
                          !.fresh         = TRUE]

\* duplexing that adds the inputs to the state instead of overwriting it
duplexing_adding(self) ==
    IF ~(Len(self.input_buffer) <= RATE)
    THEN [self EXCEPT !.panic = "assertion failed: self.input_buffer.len() <= RATE"]
    ELSE LET n        == Len(self.input_buffer)
             absorbed == [i \in 1 .. WIDTH |->
                            IF i <= n
                            THEN (self.sponge_state[i] + self.input_buffer[i]) % ORDER_U64
                            ELSE self.sponge_state[i]]
             permuted == permute_mut(self.permutation, absorbed)
         IN  [self EXCEPT !.sponge_state  = permuted,
                          !.input_buffer  = << >>,
                          !.output_buffer = SubSeq(permuted, 1, RATE),
                          !.nperm         = @ + 1,
                          !.fresh         = TRUE]

\* DuplexChallenger::duplexing
duplexing(self) ==
    IF ~(Len(self.input_buffer) <= RATE)
    THEN [self EXCEPT !.panic = "assertion failed: self.input_buffer.len() <= RATE"]
    ELSE LET n        == Len(self.input_buffer)
             absorbed == [i \in 1 .. WIDTH |->
                            IF i <= n THEN self.input_buffer[i]
                                      ELSE self.sponge_state[i]]
             permuted == permute_mut(self.permutation, absorbed)
         IN  [self EXCEPT !.sponge_state  = permuted,
                          !.input_buffer  = << >>,
                          !.output_buffer = SubSeq(permuted, 1, RATE),
                          !.nperm         = @ + 1,
                          !.fresh         = TRUE]

\* observe that duplexes one push late
observe_late(self, value) ==
    LET pushed == [self EXCEPT !.output_buffer = << >>,
                               !.input_buffer  = Append(@, value),
                               !.peak          = Max(@, Len(self.input_buffer) + 1),
                               !.fresh         = FALSE]
    IN  IF Len(pushed.input_buffer) > RATE THEN duplexing(pushed) ELSE pushed

\* observe that leaves the outputs squeezed before it in output_buffer
observe_keeping_output(self, value) ==
    LET pushed == [self EXCEPT !.input_buffer  = Append(@, value),
                               !.peak          = Max(@, Len(self.input_buffer) + 1),
                               !.fresh         = FALSE]
    IN  IF Len(pushed.input_buffer) = RATE THEN duplexing(pushed) ELSE pushed

\* observe that duplexes after every push
observe_eager(self, value) ==
    LET pushed == [self EXCEPT !.output_buffer = << >>,
                               !.input_buffer  = Append(@, value),
                               !.peak          = Max(@, Len(self.input_buffer) + 1),
                               !.fresh         = FALSE]
    IN  IF Len(pushed.input_buffer) <= RATE THEN duplexing(pushed) ELSE pushed

\* <DuplexChallenger as CanObserve<F>>::observe
observe(self, value) ==
    LET pushed == [self EXCEPT !.output_buffer = << >>,
                               !.input_buffer  = Append(@, value),
                               !.peak          = Max(@, Len(self.input_buffer) + 1),
                               !.fresh         = FALSE]
    IN  IF Len(pushed.input_buffer) = RATE THEN duplexing(pushed) ELSE pushed

\* sample's closure popping the front of output_buffer
sample_step_front(self) ==
    LET refilled == IF self.input_buffer # << >> \/ self.output_buffer = << >>
                    THEN duplexing(self) ELSE self
        m        == Len(refilled.output_buffer)
    IN  IF refilled.panic # NoPanic
        THEN [self |-> refilled, value |-> << >>]
        ELSE IF m = 0
        THEN [self  |-> [refilled EXCEPT !.panic = "Output buffer should be non-empty"],
              value |-> << >>]
        ELSE [self  |-> [refilled EXCEPT !.output_buffer = Tail(@)],
              value |-> << refilled.output_buffer[1] >>]

\* sample's closure duplexing before every pop
sample_step_eager(self) ==
    LET refilled == duplexing(self)
        m        == Len(refilled.output_buffer)
    IN  IF refilled.panic # NoPanic
        THEN [self |-> refilled, value |-> << >>]
        ELSE IF m = 0
        THEN [self  |-> [refilled EXCEPT !.panic = "Output buffer should be non-empty"],
              value |-> << >>]
        ELSE [self  |-> [refilled EXCEPT !.output_buffer = SubSeq(@, 1, m - 1)],
              value |-> << refilled.output_buffer[m] >>]

\* the closure of sample, run once per base-field coordinate:
\* the challenger after it and the element it yields
sample_step(self) ==
    LET refilled == IF self.input_buffer # << >> \/ self.output_buffer = << >>
                    THEN duplexing(self) ELSE self
        m        == Len(refilled.output_buffer)
    IN  IF refilled.panic # NoPanic
        THEN [self |-> refilled, value |-> << >>]
        ELSE IF m = 0
        THEN [self  |-> [refilled EXCEPT !.panic = "Output buffer should be non-empty"],
              value |-> << >>]
        ELSE [self  |-> [refilled EXCEPT !.output_buffer = SubSeq(@, 1, m - 1)],
              value |-> << refilled.output_buffer[m] >>]

\* sample filling the coordinates from the last to the first
RECURSIVE sample_reversed(_, _)
sample_reversed(self, d) ==
    IF d = 0 THEN [self |-> self, value |-> << >>]
    ELSE LET before == sample_reversed(self, d - 1)
         IN  IF before.self.panic # NoPanic THEN [self |-> before.self, value |-> << >>]
             ELSE LET step == sample_step(before.self)
                  IN  IF step.self.panic # NoPanic
                      THEN [self |-> step.self, value |-> << >>]
                      ELSE [self |-> step.self, value |-> step.value \o before.value]

\* <DuplexChallenger as CanSample<EF>>::sample for an extension of degree d:
\* EF::from_base_fn runs the closure for coordinates 0 .. d-1 in order.
\* A panic in one coordinate ends the call.
RECURSIVE sample(_, _)
sample(self, d) ==
    IF d = 0 THEN [self |-> self, value |-> << >>]
    ELSE LET before == sample(self, d - 1)
         IN  IF before.self.panic # NoPanic THEN [self |-> before.self, value |-> << >>]
             ELSE LET step == sample_step(before.self)
                  IN  IF step.self.panic # NoPanic
                      THEN [self |-> step.self, value |-> << >>]
                      ELSE [self |-> step.self, value |-> before.value \o step.value]

\* F::as_canonical_u64: the representative in [0, ORDER_U64)
as_canonical_u64(x) == x % ORDER_U64

\* 1 << bits on a machine word.  With overflow checks off the shift amount is
\* taken modulo the word's width; with them on the expression is reached
\* only behind debug_assert!(bits < usize::BITS).
shl_one(bits) == Pow2(bits % USIZE_BITS)

\* sample_bits masking with 1 << bits instead of (1 << bits) - 1
sample_bits_wide_mask(self, bits) ==
    IF debug_assertions /\ ~(bits < USIZE_BITS)
    THEN [self  |-> [self EXCEPT !.panic = "assertion failed: bits < (usize::BITS as usize)"],
          value |-> << >>]
    ELSE IF debug_assertions /\ ~(shl_one(bits) < ORDER_U64)
    THEN [self  |-> [self EXCEPT !.panic = "assertion failed: (1 << bits) < F::ORDER_U64"],
          value |-> << >>]
    ELSE LET rand_f == sample(self, 1)
         IN  IF rand_f.self.panic # NoPanic
             THEN [self |-> rand_f.self, value |-> << >>]
             ELSE LET rand_usize == as_canonical_u64(rand_f.value[1])
                  IN  [self  |-> rand_f.self,
                       value |-> << BitAnd(rand_usize, shl_one(bits)) >>]

\* sample_bits without the check against the field's order
sample_bits_no_order_check(self, bits) ==
    IF debug_assertions /\ ~(bits < USIZE_BITS)
    THEN [self  |-> [self EXCEPT !.panic = "assertion failed: bits < (usize::BITS as usize)"],
          value |-> << >>]
    ELSE LET rand_f == sample(self, 1)
         IN  IF rand_f.self.panic # NoPanic
             THEN [self |-> rand_f.self, value |-> << >>]
             ELSE LET rand_usize == as_canonical_u64(rand_f.value[1])
                  IN  [self  |-> rand_f.self,
                       value |-> << BitAnd(rand_usize, shl_one(bits) - 1) >>]

\* sample_bits drawing an extension element and keeping its last coordinate
sample_bits_two_draws(self, bits) ==
    IF debug_assertions /\ ~(bits < USIZE_BITS)
    THEN [self  |-> [self EXCEPT !.panic = "assertion failed: bits < (usize::BITS as usize)"],
          value |-> << >>]
    ELSE IF debug_assertions /\ ~(shl_one(bits) < ORDER_U64)
    THEN [self  |-> [self EXCEPT !.panic = "assertion failed: (1 << bits) < F::ORDER_U64"],
          value |-> << >>]
    ELSE LET rand_f == sample(self, 2)
         IN  IF rand_f.self.panic # NoPanic
             THEN [self |-> rand_f.self, value |-> << >>]
             ELSE LET rand_usize == as_canonical_u64(rand_f.value[2])
                  IN  [self  |-> rand_f.self,
                       value |-> << BitAnd(rand_usize, shl_one(bits) - 1) >>]

\* <DuplexChallenger as CanSampleBits<usize>>::sample_bits
sample_bits(self, bits) ==
    IF debug_assertions /\ ~(bits < USIZE_BITS)
    THEN [self  |-> [self EXCEPT !.panic = "assertion failed: bits < (usize::BITS as usize)"],
          value |-> << >>]
    ELSE IF debug_assertions /\ ~(shl_one(bits) < ORDER_U64)
    THEN [self  |-> [self EXCEPT !.panic = "assertion failed: (1 << bits) < F::ORDER_U64"],
          value |-> << >>]
    ELSE LET rand_f == sample(self, 1)
         IN  IF rand_f.self.panic # NoPanic
             THEN [self |-> rand_f.self, value |-> << >>]
             ELSE LET rand_usize == as_canonical_u64(rand_f.value[1])
                  IN  [self  |-> rand_f.self,
                       value |-> << BitAnd(rand_usize, shl_one(bits) - 1) >>]

\* <DuplexChallenger as CanObserve<[F; N]>>::observe
RECURSIVE observe_array(_, _)
observe_array(self, values) ==
    IF values = << >> \/ self.panic # NoPanic THEN self
    ELSE observe_array(observe(self, Head(values)), Tail(values))

\* <DuplexChallenger as CanObserve<Hash<F, F, N>>>::observe
RECURSIVE observe_hash(_, _)
observe_hash(self, values) ==
    IF values = << >> \/ self.panic # NoPanic THEN self
    ELSE observe_hash(observe(self, Head(values)), Tail(values))

\* the inner loop of CanObserve<Vec<Vec<F>>>::observe
RECURSIVE observe_inner(_, _)
observe_inner(self, values) ==
    IF values = << >> \/ self.panic # NoPanic THEN self
    ELSE observe_inner(observe(self, Head(values)), Tail(values))

\* the batch observation clearing output_buffer before its loops
observe_vecvec_clearing(self, valuess) ==
    LET RECURSIVE loop(_, _)
        loop(c, vv) ==
            IF vv = << >> \/ c.panic # NoPanic THEN c
            ELSE loop(observe_inner(c, Head(vv)), Tail(vv))
    IN  loop([self EXCEPT !.output_buffer = << >>], valuess)

\* <DuplexChallenger as CanObserve<Vec<Vec<F>>>>::observe
RECURSIVE observe_vecvec(_, _)
observe_vecvec(self, valuess) ==
    IF valuess = << >> \/ self.panic # NoPanic THEN self
    ELSE observe_vecvec(observe_inner(self, Head(valuess)), Tail(valuess))

-----------------------------------------------------------------------------
(* The observer of the call history *)

HistInit == [alive |-> TRUE, observed |-> << >>, sampled |-> << >>, nperm |-> 0]

HistDead == [alive |-> FALSE, observed |-> << >>, sampled |-> << >>, nperm |-> 0]

\* the longest absorption followed: two full chunks and one more value
MaxAbsorbed == 2 * MaxWidth + 1

\* how many observed values the observer follows: one buffer filling, or
\* the whole absorption when the caller is the absorb-then-sample script
HistCapacity == IF driver = "sponge" THEN MaxAbsorbed ELSE RATE

\* after a call that observed `values` in order
HistObserve(h, values, after) ==
    IF h.alive /\ h.sampled = << >> /\ Len(h.observed) + Len(values) <= HistCapacity
    THEN [h EXCEPT !.observed = @ \o values, !.nperm = @ + after.nperm]
    ELSE HistDead

\* after a call that returned the base-field samples `values` in order
HistSample(h, values, after) ==
    IF h.alive /\ after.panic = NoPanic /\ Len(h.sampled) + Len(values) <= RATE
    THEN [h EXCEPT !.sampled = @ \o values, !.nperm = @ + after.nperm]
    ELSE HistDead

RECURSIVE Flatten(_)
Flatten(valuess) ==
    IF valuess = << >> THEN << >> ELSE Head(valuess) \o Flatten(Tail(valuess))

-----------------------------------------------------------------------------
(* Calls *)

\* the observers of one call start afresh when the call is entered
Enter(self) == [self EXCEPT !.nperm = 0, !.peak = Len(self.input_buffer)]

Running == challenger.panic = NoPanic

\* the bound on input_buffer, which binds only when RATE = 0
Bounded(self) == Len(self.input_buffer) <= Max(RATE, MaxPending)

CallObserve(value) ==
    /\ Running
    /\ challenger' = observe(Enter(challenger), value)
    /\ Bounded(challenger')
    /\ ret' = << >>
    /\ last' = [op |-> "observe", arg |-> << << value >> >>]
    /\ hist' = HistObserve(hist, << value >>, challenger')
    /\ UNCHANGED << config, layer >>

CallSample(d) ==
    /\ Running
    /\ LET r == sample(Enter(challenger), d)
       IN  /\ challenger' = r.self
           /\ ret' = r.value
           /\ hist' = HistSample(hist, r.value, r.self)
    /\ last' = [op |-> "sample", arg |-> << << d >> >>]
    /\ UNCHANGED << config, layer >>

Observe == driver = "any" /\ \E value \in F : CallObserve(value)

\* the elements of the compound observations: two distinct non-default
\* elements of every field of the model
Elements == {1, 2}

Arrays == SeqsUpTo(Elements, MaxLen)

\* digests have one fixed length
Digests == [1 .. MaxLen -> Elements]

\* vectors of at most two vectors, empty ones included, of at most MaxLen
\* elements in all
VecVecs == { valuess \in SeqsUpTo(Arrays, 2) : Len(Flatten(valuess)) <= MaxLen }

ObserveArray ==
    /\ driver = "any"
    /\ Running
    /\ \E values \in Arrays :
        /\ challenger' = observe_array(Enter(challenger), values)
        /\ Bounded(challenger')
        /\ last' = [op |-> "observe_array", arg |-> << values >>]
        /\ hist' = HistObserve(hist, values, challenger')
    /\ ret' = << >>
    /\ UNCHANGED << config, layer >>

ObserveHash ==
    /\ driver = "any"
    /\ Running
    /\ \E values \in Digests :
        /\ challenger' = observe_hash(Enter(challenger), values)
        /\ Bounded(challenger')
        /\ last' = [op |-> "observe_hash", arg |-> << values >>]
        /\ hist' = HistObserve(hist, values, challenger')
    /\ ret' = << >>
    /\ UNCHANGED << config, layer >>

ObserveVecVec ==
    /\ driver = "any"
    /\ Running
    /\ \E valuess \in VecVecs :
        /\ challenger' = observe_vecvec(Enter(challenger), valuess)
        /\ Bounded(challenger')
        /\ last' = [op |-> "observe_vecvec", arg |-> valuess]
        /\ hist' = HistObserve(hist, Flatten(valuess), challenger')
    /\ ret' = << >>
    /\ UNCHANGED << config, layer >>

Sample == driver = "any" /\ \E d \in 1 .. MaxDegree : CallSample(d)

\* sample::<F>, the base field as its own extension of degree 1
SampleBase == driver = "any" /\ CallSample(1)

BitCounts == (0 .. MaxBits) \cup {USIZE_BITS, USIZE_BITS + 1}

SampleBits ==
    /\ driver = "any"
    /\ Running
    /\ \E bits \in BitCounts :
        LET r == sample_bits(Enter(challenger), bits)
        IN  /\ challenger' = r.self
            /\ ret' = r.value
            /\ last' = [op |-> "sample_bits", arg |-> << << bits >> >>]
    /\ hist' = HistDead
    /\ UNCHANGED << config, layer >>

\* test_duplex_challenger: observe 0 .. 11, then sample_vec(16), which
\* samples one base-field element sixteen times
TestObserve ==
    /\ driver = "test"
    /\ hist.sampled = << >>
    /\ Len(hist.observed) < TEST_OBSERVED
    /\ CallObserve(Len(hist.observed))

TestSample ==
    /\ driver = "test"
    /\ Len(hist.observed) = TEST_OBSERVED
    /\ Len(hist.sampled) < TEST_SAMPLES
    /\ CallSample(1)

\* the absorb-then-sample script: observes on a new challenger ...
SpongeObserve ==
    /\ driver = "sponge"
    /\ hist.sampled = << >>
    /\ Len(hist.observed) < MaxAbsorbed
    /\ \E value \in Elements : CallObserve(value)

\* ... and then one base-field sample
SpongeSample ==
    /\ driver = "sponge"
    /\ hist.sampled = << >>
    /\ CallSample(1)

-----------------------------------------------------------------------------
(* 32-bit words and the AVX2 instructions on them *)

(* A __m256i is a sequence of LANES 32-bit words.  A word is written as    *)
(* the integer its bits denote in two's complement, MinI32 .. MaxI32, so   *)
(* that no value of the model leaves the integers TLC computes with; the   *)
(* unsigned reading of a word below zero is that integer plus 2^32.        *)

\* i32::MAX
MaxI32 == 2147483647
MinI32 == -MaxI32 - 1
\* 32-bit words in a __m256i
LANES == 8
\* the KoalaBear prime P = r * 2^j + 1 = 127 * 2^24 + 1
P == 2130706433
\* its odd factor r
ODD_FACTOR == 127

\* the low 31 bits of a word
Low31(a) == IF a >= 0 THEN a ELSE a - MinI32

\* a + b modulo 2^32
WrapAdd(a, b) ==
    IF a >= 0 /\ b >= 0 /\ a > MaxI32 - b THEN (a + MinI32) + (b + MinI32)
    ELSE IF a < 0 /\ b < 0 /\ a < MinI32 - b THEN (a - MinI32) + (b - MinI32)
    ELSE a + b

\* a - b modulo 2^32
WrapSub(a, b) == IF b = MinI32 THEN WrapAdd(a, MinI32) ELSE WrapAdd(a, -b)

\* a < b on the unsigned readings
LtU(a, b) == IF (a < 0) = (b < 0) THEN a < b ELSE b < 0

\* a >> n on the unsigned reading, 1 <= n <= 31
Srl(a, n) ==
    IF a >= 0 THEN a \div Pow2(n)
    ELSE (Low31(a) \div Pow2(n)) + Pow2(31 - n)

\* byte k (0 = lowest) of a word, unsigned
Byte(a, k) ==
    IF k < 3 THEN (Low31(a) \div Pow2(8 * k)) % 256
    ELSE (Low31(a) \div Pow2(24)) + (IF a < 0 THEN 128 ELSE 0)

\* a byte read as a signed 8-bit integer
SignedByte(b) == IF b >= 128 THEN b - 256 ELSE b

\* signed saturation to 16 bits
Saturate16(v) == IF v > 32767 THEN 32767 ELSE IF v < -32768 THEN -32768 ELSE v

\* the word whose low half is the 16-bit pattern lo and whose high half is
\* the 16-bit pattern hi, each given as 0 .. 65535
FromHalves(lo, hi) == lo + (IF hi >= 32768 THEN hi - 65536 ELSE hi) * 65536

\* the 16-bit pattern of a signed 16-bit integer
Pattern16(v) == IF v < 0 THEN v + 65536 ELSE v

\* transmute([c; 8]): the vector of eight words c
Splat(c) == [j \in 1 .. LANES |-> c]

\* _mm256_srli_epi32::<IMM8>
mm256_srli_epi32(imm8, a) == [j \in 1 .. LANES |-> Srl(a[j], imm8)]

\* _mm256_maddubs_epi16: in every 16-bit lane, the unsigned bytes of a times
\* the signed bytes of b, the two products added with signed saturation
mm256_maddubs_epi16(a, b) ==
    [j \in 1 .. LANES |->
        LET lo == Saturate16(Byte(a[j], 0) * SignedByte(Byte(b[j], 0))
                           + Byte(a[j], 1) * SignedByte(Byte(b[j], 1)))
            hi == Saturate16(Byte(a[j], 2) * SignedByte(Byte(b[j], 2))
                           + Byte(a[j], 3) * SignedByte(Byte(b[j], 3)))
        IN  FromHalves(Pattern16(lo), Pattern16(hi))]

\* _mm256_bslli_epi128::<2>: each 128-bit half shifted left by two bytes; a
\* word takes its low half from the high half of the word before it in
\* the same 128-bit half
mm256_bslli_epi128_2(a) ==
    [j \in 1 .. LANES |->
        FromHalves(IF j % 4 = 1 THEN 0 ELSE Srl(a[j - 1], 16),
                   Low31(a[j]) % 65536)]

\* _mm256_sub_epi32
mm256_sub_epi32(a, b) == [j \in 1 .. LANES |-> WrapSub(a[j], b[j])]

-----------------------------------------------------------------------------
(* Poseidon2 internal layer, KoalaBear, AVX2 *)

\* mul_2_exp_neg_8 with the operands of the subtraction exchanged
mul_2_exp_neg_8_swapped(input) ==
    LET ONE_TWENTY_SEVEN == Splat(ODD_FACTOR)
        hi      == mm256_srli_epi32(8, input)
        lo      == mm256_maddubs_epi16(input, ONE_TWENTY_SEVEN)
        lo_shft == mm256_bslli_epi128_2(lo)
    IN  mm256_sub_epi32(lo_shft, hi)

\* mul_2_exp_neg_8
mul_2_exp_neg_8(input) ==
    LET ONE_TWENTY_SEVEN == Splat(ODD_FACTOR)
        hi      == mm256_srli_epi32(8, input)
        lo      == mm256_maddubs_epi16(input, ONE_TWENTY_SEVEN)
        lo_shft == mm256_bslli_epi128_2(lo)
    IN  mm256_sub_epi32(hi, lo_shft)

\* mul_neg_2_exp_neg_8
mul_neg_2_exp_neg_8(input) ==
    LET ONE_TWENTY_SEVEN == Splat(ODD_FACTOR)
        hi      == mm256_srli_epi32(8, input)
        lo      == mm256_maddubs_epi16(input, ONE_TWENTY_SEVEN)
        lo_shft == mm256_bslli_epi128_2(lo)
    IN  mm256_sub_epi32(lo_shft, hi)

(* The lane primitives of p3_monty_31, for KoalaBearParameters *)

\* _mm256_min_epu32 on one word
MinU(a, b) == IF LtU(a, b) THEN a ELSE b

\* add: lhs + rhs mod P for canonical operands; the smaller, unsigned, of
\* the wrapped sum and the wrapped sum minus P
add_word(lhs, rhs) ==
    LET t == WrapAdd(lhs, rhs)
        u == WrapSub(t, P)
    IN  MinU(t, u)

add(lhs, rhs) == [j \in 1 .. LANES |-> add_word(lhs[j], rhs[j])]

\* sub: lhs - rhs mod P for canonical operands; the smaller, unsigned, of
\* the wrapped difference and the wrapped difference plus P
sub_word(lhs, rhs) ==
    LET t == WrapSub(lhs, rhs)
        u == WrapAdd(t, P)
    IN  MinU(t, u)

sub(lhs, rhs) == [j \in 1 .. LANES |-> sub_word(lhs[j], rhs[j])]

\* halve_avx2: x / 2 mod P for canonical x by one parity-dependent
\* correction: (x >> 1), plus (P + 1) / 2 when x is odd
halve_word(x) ==
    WrapAdd(Srl(x, 1), IF Low31(x) % 2 = 1 THEN (P + 1) \div 2 ELSE 0)

halve_avx2(input) == [j \in 1 .. LANES |-> halve_word(input[j])]

\* mul_2_exp_neg_n_avx2::<_, N, N_PRIME>, N + N_PRIME = 24: as the 2^-8
\* routine, (x >> N) - ((r * (x & (2^N - 1))) << N_PRIME)
mul_2_exp_neg_n_word(n, n_prime, x) ==
    WrapSub(Srl(x, n), (ODD_FACTOR * (Low31(x) % Pow2(n))) * Pow2(n_prime))

mul_2_exp_neg_n_avx2(n, n_prime, input) ==
    [j \in 1 .. LANES |-> mul_2_exp_neg_n_word(n, n_prime, input[j])]

\* mul_neg_2_exp_neg_n_avx2::<_, N, N_PRIME>: the subtraction the other way
mul_neg_2_exp_neg_n_word(n, n_prime, x) ==
    WrapSub((ODD_FACTOR * (Low31(x) % Pow2(n))) * Pow2(n_prime), Srl(x, n))

mul_neg_2_exp_neg_n_avx2(n, n_prime, input) ==
    [j \in 1 .. LANES |-> mul_neg_2_exp_neg_n_word(n, n_prime, input[j])]

\* mul_2_exp_neg_two_adicity_avx2::<_, N, N_PRIME>, N = 24, 2^N_PRIME - 1 = r:
\* (x >> N) - r * (x & (2^N - 1))
mul_2_exp_neg_two_adicity_word(n, n_prime, x) ==
    WrapSub(Srl(x, n), (Pow2(n_prime) - 1) * (Low31(x) % Pow2(n)))

mul_2_exp_neg_two_adicity_avx2(n, n_prime, input) ==
    [j \in 1 .. LANES |-> mul_2_exp_neg_two_adicity_word(n, n_prime, input[j])]

\* mul_neg_2_exp_neg_two_adicity_avx2::<_, N, N_PRIME>
mul_neg_2_exp_neg_two_adicity_word(n, n_prime, x) ==
    WrapSub((Pow2(n_prime) - 1) * (Low31(x) % Pow2(n)), Srl(x, n))

mul_neg_2_exp_neg_two_adicity_avx2(n, n_prime, input) ==
    [j \in 1 .. LANES |-> mul_neg_2_exp_neg_two_adicity_word(n, n_prime, input[j])]

\* signed_add_avx2: lhs + rhs mod P for lhs in [0, P) and rhs in (-P, P);
\* the wrapped sum is corrected by P with the sign of rhs, and the smaller,
\* unsigned, of the sum and the corrected sum is kept
signed_add_word(lhs, rhs) ==
    LET pos_neg_P == IF rhs < 0 THEN -P ELSE IF rhs = 0 THEN 0 ELSE P
        sum       == WrapAdd(lhs, rhs)
        sum_corr  == WrapSub(sum, pos_neg_P)
    IN  MinU(sum, sum_corr)

signed_add_avx2(lhs, rhs) ==
    [j \in 1 .. LANES |-> signed_add_word(lhs[j], rhs[j])]

(* InternalLayerParametersAVX2<16> and <24> for                            *)
(* KoalaBearInternalLayerParameters.  `input` holds state[1 ..]: Rust's    *)
(* input[k] is input[k + 1] here, and its diagonal entry is D[k + 1] in    *)
(* Rust's indexing of D, D[k + 2] here.                                    *)

\* what a call that panics leaves as its result: no array
Aborted == << >>

\* every word of every vector is in canonical form
Canonical(input) ==
    \A k \in 1 .. Len(input) : \A j \in 1 .. LANES : input[k][j] >= 0 /\ input[k][j] < P

\* an entry sign * num / 2^shift of a diagonal
Entry(sign, num, shift) == [sign |-> sign, num |-> num, shift |-> shift]

\* D for width 16:
\* [-2, 1, 2, 1/2, 3, 4, -1/2, -3, -4, 1/2^8, -1/2^8, 1/8, -1/8, -1/16, 1/2^24, -1/2^24]
D16 ==
    << Entry(-1, 2, 0), Entry(1, 1, 0), Entry(1, 2, 0), Entry(1, 1, 1),
       Entry(1, 3, 0), Entry(1, 4, 0), Entry(-1, 1, 1), Entry(-1, 3, 0),
       Entry(-1, 4, 0), Entry(1, 1, 8), Entry(-1, 1, 8), Entry(1, 1, 3),
       Entry(-1, 1, 3), Entry(-1, 1, 4), Entry(1, 1, 24), Entry(-1, 1, 24) >>

\* D for width 24:
\* [-2, 1, 2, 1/2, 3, 4, -1/2, -3, -4, 1/2^8, -1/2^8, 1/4, 1/8, -1/8, 1/16, -1/16,
\*  1/32, -1/32, 1/64, -1/64, -1/2^7, -1/2^9, 1/2^24, -1/2^24]
D24 ==
    << Entry(-1, 2, 0), Entry(1, 1, 0), Entry(1, 2, 0), Entry(1, 1, 1),
       Entry(1, 3, 0), Entry(1, 4, 0), Entry(-1, 1, 1), Entry(-1, 3, 0),
       Entry(-1, 4, 0), Entry(1, 1, 8), Entry(-1, 1, 8), Entry(1, 1, 2),
       Entry(1, 1, 3), Entry(-1, 1, 3), Entry(1, 1, 4), Entry(-1, 1, 4),
       Entry(1, 1, 5), Entry(-1, 1, 5), Entry(1, 1, 6), Entry(-1, 1, 6),
       Entry(-1, 1, 7), Entry(-1, 1, 9), Entry(1, 1, 24), Entry(-1, 1, 24) >>

\* diagonal_mul for width 16 that asserts its precondition
diagonal_mul_16_checked(input) ==
    IF ~Canonical(input) THEN Aborted
    ELSE [input EXCEPT
            ![2]  = add(@, @),
            ![3]  = halve_avx2(@),
            ![4]  = LET acc3 == add(@, @) IN add(acc3, @),
            ![5]  = LET acc4 == add(@, @) IN add(acc4, acc4),
            ![6]  = halve_avx2(@),
            ![7]  = LET acc6 == add(@, @) IN add(acc6, @),
            ![8]  = LET acc7 == add(@, @) IN add(acc7, acc7),
            ![9]  = mul_2_exp_neg_8(@),
            ![10] = mul_neg_2_exp_neg_8(@),
            ![11] = mul_2_exp_neg_n_avx2(3, 21, @),
            ![12] = mul_neg_2_exp_neg_n_avx2(3, 21, @),
            ![13] = mul_neg_2_exp_neg_n_avx2(4, 20, @),
            ![14] = mul_2_exp_neg_two_adicity_avx2(24, 7, @),
            ![15] = mul_neg_2_exp_neg_two_adicity_avx2(24, 7, @)]

\* <KoalaBearInternalLayerParameters as InternalLayerParametersAVX2<16>>::diagonal_mul
diagonal_mul_16(input) ==
    [input EXCEPT
        ![2]  = add(@, @),
        ![3]  = halve_avx2(@),
        ![4]  = LET acc3 == add(@, @) IN add(acc3, @),
        ![5]  = LET acc4 == add(@, @) IN add(acc4, acc4),
        ![6]  = halve_avx2(@),
        ![7]  = LET acc6 == add(@, @) IN add(acc6, @),
        ![8]  = LET acc7 == add(@, @) IN add(acc7, acc7),
        ![9]  = mul_2_exp_neg_8(@),
        ![10] = mul_neg_2_exp_neg_8(@),
        ![11] = mul_2_exp_neg_n_avx2(3, 21, @),
        ![12] = mul_neg_2_exp_neg_n_avx2(3, 21, @),
        ![13] = mul_neg_2_exp_neg_n_avx2(4, 20, @),
        ![14] = mul_2_exp_neg_two_adicity_avx2(24, 7, @),
        ![15] = mul_neg_2_exp_neg_two_adicity_avx2(24, 7, @)]

\* add_sum for width 16 that adds the sum to the lanes of -1/2, -3, -4 too
add_sum_16_adding(input, sum) ==
    [k \in 1 .. Len(input) |->
        IF k <= 8 THEN add(sum, input[k])
        ELSE signed_add_avx2(sum, input[k])]

\* <... as InternalLayerParametersAVX2<16>>::add_sum
add_sum_16(input, sum) ==
    [k \in 1 .. Len(input) |->
        IF k <= 5 THEN add(sum, input[k])
        ELSE IF k <= 8 THEN sub(sum, input[k])
        ELSE signed_add_avx2(sum, input[k])]

\* diagonal_mul for width 24 with the width-16 routine left at input[10]
diagonal_mul_24_stale(input) ==
    [input EXCEPT
        ![2]  = add(@, @),
        ![3]  = halve_avx2(@),
        ![4]  = LET acc3 == add(@, @) IN add(acc3, @),
        ![5]  = LET acc4 == add(@, @) IN add(acc4, acc4),
        ![6]  = halve_avx2(@),
        ![7]  = LET acc6 == add(@, @) IN add(acc6, @),
        ![8]  = LET acc7 == add(@, @) IN add(acc7, acc7),
        ![9]  = mul_2_exp_neg_8(@),
        ![10] = mul_neg_2_exp_neg_8(@),
        ![11] = mul_2_exp_neg_n_avx2(3, 21, @),
        ![12] = mul_2_exp_neg_n_avx2(3, 21, @),
        ![13] = mul_neg_2_exp_neg_n_avx2(3, 21, @),
        ![14] = mul_2_exp_neg_n_avx2(4, 20, @),
        ![15] = mul_neg_2_exp_neg_n_avx2(4, 20, @),
        ![16] = mul_2_exp_neg_n_avx2(5, 19, @),
        ![17] = mul_neg_2_exp_neg_n_avx2(5, 19, @),
        ![18] = mul_2_exp_neg_n_avx2(6, 18, @),
        ![19] = mul_neg_2_exp_neg_n_avx2(6, 18, @),
        ![20] = mul_neg_2_exp_neg_n_avx2(7, 17, @),
        ![21] = mul_neg_2_exp_neg_n_avx2(9, 15, @),
        ![22] = mul_2_exp_neg_two_adicity_avx2(24, 7, @),
        ![23] = mul_neg_2_exp_neg_two_adicity_avx2(24, 7, @)]

\* <... as InternalLayerParametersAVX2<24>>::diagonal_mul
diagonal_mul_24(input) ==
    [input EXCEPT
        ![2]  = add(@, @),
        ![3]  = halve_avx2(@),
        ![4]  = LET acc3 == add(@, @) IN add(acc3, @),
        ![5]  = LET acc4 == add(@, @) IN add(acc4, acc4),
        ![6]  = halve_avx2(@),
        ![7]  = LET acc6 == add(@, @) IN add(acc6, @),
        ![8]  = LET acc7 == add(@, @) IN add(acc7, acc7),
        ![9]  = mul_2_exp_neg_8(@),
        ![10] = mul_neg_2_exp_neg_8(@),
        ![11] = mul_2_exp_neg_n_avx2(2, 22, @),
        ![12] = mul_2_exp_neg_n_avx2(3, 21, @),
        ![13] = mul_neg_2_exp_neg_n_avx2(3, 21, @),
        ![14] = mul_2_exp_neg_n_avx2(4, 20, @),
        ![15] = mul_neg_2_exp_neg_n_avx2(4, 20, @),
        ![16] = mul_2_exp_neg_n_avx2(5, 19, @),
        ![17] = mul_neg_2_exp_neg_n_avx2(5, 19, @),
        ![18] = mul_2_exp_neg_n_avx2(6, 18, @),
        ![19] = mul_neg_2_exp_neg_n_avx2(6, 18, @),
        ![20] = mul_neg_2_exp_neg_n_avx2(7, 17, @),
        ![21] = mul_neg_2_exp_neg_n_avx2(9, 15, @),
        ![22] = mul_2_exp_neg_two_adicity_avx2(24, 7, @),
        ![23] = mul_neg_2_exp_neg_two_adicity_avx2(24, 7, @)]

\* add_sum for width 24 with the unsigned add on every lane it adds to
add_sum_24_unsigned(input, sum) ==
    [k \in 1 .. Len(input) |->
        IF k <= 5 THEN add(sum, input[k])
        ELSE IF k <= 8 THEN sub(sum, input[k])
        ELSE add(sum, input[k])]

\* <... as InternalLayerParametersAVX2<24>>::add_sum
add_sum_24(input, sum) ==
    [k \in 1 .. Len(input) |->
        IF k <= 5 THEN add(sum, input[k])
        ELSE IF k <= 8 THEN sub(sum, input[k])
        ELSE signed_add_avx2(sum, input[k])]

(* The two calls of one internal round on state[1 ..] *)

\* how far from a threshold the sample words reach
MaxOffset == 1

Near(a) == (a - MaxOffset) .. (a + MaxOffset)

\* canonical words around the thresholds of the routines: 0, the byte and
\* half-word boundaries, 2^24, P / 2 and P
CanonicalWords ==
    { v \in UNION { Near(a) : a \in {0, 256, 65536, 16777216, (P - 1) \div 2, P - 1} } :
        v >= 0 /\ v < P }

\* words out of canonical form: P and just above, and the ends of the
\* signed and of the unsigned range
NonCanonicalWords ==
    UNION { {P + o, MaxI32 - o, MinI32 + o, -1 - o} : o \in 0 .. MaxOffset }

\* canonical row sums: around 0, P / 2 and P
Sums ==
    { v \in Near(0) \cup Near((P - 1) \div 2) \cup Near(P - 1) : v >= 0 /\ v < P }

\* the words next to the word under study in its vector
Neighbours == { v \in Near(P - 1) : v < P }

\* state[1 ..]: in every vector the words x and y alternate, and the
\* vectors of neighbouring indices start differently
LayerInput(width, x, y) ==
    [k \in 1 .. (width - 1) |->
        [j \in 1 .. LANES |-> IF (j + k) % 2 = 0 THEN x ELSE y]]

DiagonalMul ==
    /\ driver = "layer"
    /\ layer.pc = "start"
    /\ LET out == IF WIDTH = 16 THEN diagonal_mul_16(layer.input)
                                ELSE diagonal_mul_24(layer.input)
       IN  layer' = IF out = Aborted
                    THEN [layer EXCEPT !.pc = "aborted"]
                    ELSE [layer EXCEPT !.input = out, !.pc = "multiplied"]
    /\ UNCHANGED << config, challenger, ret, last, hist >>

AddSum ==
    /\ driver = "layer"
    /\ layer.pc = "multiplied"
    /\ layer' = [layer EXCEPT
                    !.input = IF WIDTH = 16 THEN add_sum_16(layer.input, layer.sum)
                                            ELSE add_sum_24(layer.input, layer.sum),
                    !.pc    = "summed"]
    /\ UNCHANGED << config, challenger, ret, last, hist >>

-----------------------------------------------------------------------------
(* The specification *)

Init ==
    /\ \/ /\ driver = "any"
          /\ ORDER_U64 = SmallOrder
          /\ WIDTH = MaxWidth
          /\ RATE \in 0 .. MaxWidth
          /\ debug_assertions \in BOOLEAN
          /\ \E permutation \in PermutationKinds : challenger = new(permutation)
       \/ /\ driver = "test"
          /\ ORDER_U64 = TestOrder
          /\ WIDTH = TEST_WIDTH
          /\ RATE = TEST_RATE
          /\ debug_assertions = TRUE
          /\ challenger = new("reverse")
    /\ ret = << >>
    /\ last = [op |-> "new", arg |-> << >>]
    /\ hist = HistInit
    /\ layer = NoLayer

\* the single-value calls, and the unit test
Next ==
    \/ Observe
    \/ Sample
    \/ SampleBits
    \/ TestObserve
    \/ TestSample

Spec == Init /\ [][Next]_vars

\* the compound observations, between samples: an array of one element is
\* a single-value observe, so every buffer filling is reached.  The state
\* is one element narrower than in Spec, the permutation is the mixing one
\* and the history is not followed.
InitCompound ==
    /\ driver = "any"
    /\ ORDER_U64 = SmallOrder
    /\ WIDTH = MaxWidth - 1
    /\ RATE \in 0 .. WIDTH
    /\ debug_assertions = TRUE
    /\ challenger = new("rotate_add")
    /\ ret = << >>
    /\ last = [op |-> "new", arg |-> << >>]
    /\ hist = HistDead
    /\ layer = NoLayer

NextCompound ==
    \/ ObserveArray
    \/ ObserveHash
    \/ ObserveVecVec
    \/ SampleBase

SpecCompound == InitCompound /\ [][NextCompound]_vars

\* absorption: a new challenger with RATE >= 1 observes up to MaxAbsorbed
\* non-default values one by one and then samples once
InitSponge ==
    /\ driver = "sponge"
    /\ ORDER_U64 = SmallOrder
    /\ WIDTH = MaxWidth
    /\ RATE \in 1 .. MaxWidth
    /\ debug_assertions = TRUE
    /\ \E permutation \in PermutationKinds : challenger = new(permutation)
    /\ ret = << >>
    /\ last = [op |-> "new", arg |-> << >>]
    /\ hist = HistInit
    /\ layer = NoLayer

NextSponge ==
    \/ SpongeObserve
    \/ SpongeSample

SpecSponge == InitSponge /\ [][NextSponge]_vars

\* one internal round's linear layer on state[1 ..], for both widths: the
\* words are drawn canonical and not, the row sum canonical
InitLayer ==
    /\ driver = "layer"
    /\ ORDER_U64 = P
    /\ WIDTH \in {16, 24}
    /\ RATE = 0
    /\ debug_assertions = TRUE
    /\ challenger = new("reverse")
    /\ ret = << >>
    /\ last = [op |-> "new", arg |-> << >>]
    /\ hist = HistDead
    /\ \E x \in CanonicalWords \cup NonCanonicalWords, y \in Neighbours, s \in Sums :
         layer = [pc    |-> "start",
                  input |-> LayerInput(WIDTH, x, y),
                  sum   |-> Splat(s),
                  x     |-> LayerInput(WIDTH, x, y)]

NextLayer ==
    \/ DiagonalMul
    \/ AddSum

SpecLayer == InitLayer /\ [][NextLayer]_vars

-----------------------------------------------------------------------------
(* Reference behaviours the calls are compared with *)

\* the struct's data fields
Fields(self) == << self.sponge_state, self.input_buffer, self.output_buffer >>

\* the state in which the permutation runs at the first duplexing of a new
\* challenger that observed `observed`, fewer than RATE values
Padded(observed) ==
    [i \in 1 .. WIDTH |-> IF i <= Len(observed) THEN observed[i] ELSE Default]

AssertInputLen == "assertion failed: self.input_buffer.len() <= RATE"
ExpectOutput == "Output buffer should be non-empty"
AssertBitsWord == "assertion failed: bits < (usize::BITS as usize)"
AssertBitsOrder == "assertion failed: (1 << bits) < F::ORDER_U64"

\* the argument of the last sample_bits or sample call
LastArg == last.arg[1][1]

\* bits meets sample_bits's precondition
ValidBits(bits) == bits < USIZE_BITS /\ Pow2(bits) < ORDER_U64

\* the calls observe(v_1), ..., observe(v_n) made one after the other: the
\* challenger after the last of them and the permutations they ran
RECURSIVE ObserveEach(_, _)
ObserveEach(self, values) ==
    IF values = << >> THEN [self |-> self, nperm |-> 0]
    ELSE LET n      == Len(values)
             before == ObserveEach(self, SubSeq(values, 1, n - 1))
             after  == observe(Enter(before.self), values[n])
         IN  [self |-> after, nperm |-> before.nperm + after.nperm]

\* d base-field sample calls made one after the other, as long as none
\* panics: the challenger after them, the elements they returned and the
\* permutations they ran
RECURSIVE SampleEach(_, _)
SampleEach(self, d) ==
    IF d = 0 THEN [self |-> self, value |-> << >>, nperm |-> 0]
    ELSE LET before == SampleEach(self, d - 1)
         IN  IF before.self.panic # NoPanic THEN before
             ELSE LET call == sample(Enter(before.self), 1)
                  IN  [self  |-> call.self,
                       value |-> before.value \o call.value,
                       nperm |-> before.nperm + call.self.nperm]

-----------------------------------------------------------------------------
(* Claims *)

\* C1: for RATE >= 1, whenever sample or sample_bits has returned a value,
\* the permutation has run after the most recent observe, no observed
\* value is left in input_buffer, and the element a sample returned (its
\* last coordinate) is the entry of the current sponge_state just above the
\* remaining output_buffer.
C1_OutputFreshness ==
    (RATE >= 1 /\ last.op \in {"sample", "sample_bits"} /\ ret # << >>)
        => /\ challenger.fresh
           /\ challenger.input_buffer = << >>
           /\ Len(challenger.output_buffer) < RATE
           /\ last.op = "sample" =>
                ret[Len(ret)] = challenger.sponge_state[Len(challenger.output_buffer) + 1]

\* C1 witness: a sample that had to permute returned a value after calls
\* that were not all observes followed by samples (an observe came after
\* outputs had been squeezed).
C1_Witness ==
    /\ RATE >= 2
    /\ last.op = "sample"
    /\ ret # << >>
    /\ challenger.nperm >= 1
    /\ ~hist.alive
    /\ challenger.fresh

\* C3: on a new challenger, after n < RATE observed values and then k
\* base-field samples, 1 <= k <= RATE, the permutation has run exactly once,
\* on the observed values padded with defaults, and the j-th sample is entry
\* RATE-1-j (0-based) of the permuted state; in the unit test's script the
\* sixteen samples are 8, 9, 10, 11 and twelve zeros.
C3_SqueezeOrder ==
    /\ (hist.alive /\ RATE >= 1 /\ Len(hist.observed) < RATE /\ Len(hist.sampled) >= 1)
        => LET permuted == permute_mut(challenger.permutation, Padded(hist.observed))
           IN  /\ hist.nperm = 1
               /\ challenger.sponge_state = permuted
               /\ \A j \in 1 .. Len(hist.sampled) : hist.sampled[j] = permuted[RATE + 1 - j]
    /\ (driver = "test" /\ Len(hist.sampled) = TEST_SAMPLES)
        => hist.sampled = << 8, 9, 10, 11, 0, 0, 0, 0, 0, 0, 0, 0, 0, 0, 0, 0 >>

\* C3 witness: the unit test has observed 0 .. 11 and taken its 16 samples.
C3_Witness ==
    /\ driver = "test"
    /\ hist.observed = << 0, 1, 2, 3, 4, 5, 6, 7, 8, 9, 10, 11 >>
    /\ Len(hist.sampled) = TEST_SAMPLES

\* C4: for RATE >= 1, input_buffer never holds more than RATE elements, not
\* even inside a call, it holds fewer than RATE whenever a call has
\* returned, and the assertion of duplexing has not failed.
C4_InputBufferBound ==
    RATE >= 1
        => /\ challenger.peak <= RATE
           /\ Len(challenger.input_buffer) < RATE
           /\ challenger.panic # AssertInputLen

\* C4 witness: an observe brought input_buffer to RATE elements and drained
\* it by a duplexing before returning.
C4_Witness ==
    /\ RATE >= 2
    /\ last.op = "observe"
    /\ challenger.peak = RATE
    /\ challenger.nperm = 1
    /\ challenger.input_buffer = << >>

\* C5: on a new challenger that observed fewer than RATE values, the first
\* sample call runs the permutation before it returns: the call permutes,
\* and what it returns is read from the permuted state, not from the
\* all-default state.
C5_FirstSampleDuplexes ==
    (/\ hist.alive
     /\ RATE >= 1
     /\ last.op = "sample"
     /\ ret # << >>
     /\ hist.sampled = ret
     /\ Len(hist.observed) < RATE)
        => /\ challenger.nperm >= 1
           /\ hist.nperm >= 1
           /\ ret[1] = permute_mut(challenger.permutation, Padded(hist.observed))[RATE]

\* C5 witness: the first call on a new challenger is a sample, and it
\* returns an element that differs from the default.
C5_Witness ==
    /\ hist.alive
    /\ hist.observed = << >>
    /\ last.op = "sample"
    /\ hist.sampled = ret
    /\ ret # << >>
    /\ ret[1] # Default

\* C6: observing an array, a digest or a vector of vectors leaves the
\* challenger's sponge_state, input_buffer and output_buffer as the
\* single-value observes of the elements, in order (outer, then inner),
\* leave them, after the same number of permutations; with no element at all
\* the three fields are unchanged.
C6_CompoundObserve ==
    [][ last'.op \in {"observe_array", "observe_hash", "observe_vecvec"}
            => LET values == Flatten(last'.arg)
                   each   == ObserveEach(challenger, values)
               IN  /\ Fields(challenger') = Fields(each.self)
                   /\ challenger'.nperm = each.nperm
                   /\ challenger'.panic = each.self.panic
                   /\ values = << >> => Fields(challenger') = Fields(challenger)
      ]_vars

\* C6 witness: a vector of two non-empty vectors with different elements
\* was observed and a duplexing ran inside the call.
C6_Witness ==
    /\ last.op = "observe_vecvec"
    /\ Len(last.arg) = 2
    /\ Len(last.arg[1]) = 1
    /\ Len(last.arg[2]) = 1
    /\ last.arg[1] # last.arg[2]
    /\ challenger.nperm >= 1
    /\ RATE >= 2

\* C7: a sample of a degree-d extension element changes the challenger as d
\* base-field sample calls in a row do and returns their results as its
\* coordinates, in order; when it returns, it has d coordinates and has
\* taken d elements off the squeezed stream (RATE new ones per permutation).
C7_ExtensionSample ==
    [][ last'.op = "sample"
            => LET d    == last'.arg[1][1]
                   each == SampleEach(challenger, d)
               IN  /\ Fields(challenger') = Fields(each.self)
                   /\ challenger'.panic = each.self.panic
                   /\ challenger'.nperm = each.nperm
                   /\ ret' = (IF each.self.panic = NoPanic THEN each.value ELSE << >>)
                   /\ challenger'.panic = NoPanic
                        => /\ Len(ret') = d
                           /\ Len(challenger'.output_buffer) =
                                IF challenger.input_buffer = << >>
                                THEN Len(challenger.output_buffer)
                                        + challenger'.nperm * RATE - d
                                ELSE challenger'.nperm * RATE - d
      ]_vars

\* C7 witness: a degree-2 sample returned two different coordinates and
\* permuted on the way.
C7_Witness ==
    /\ last.op = "sample"
    /\ LastArg = 2
    /\ Len(ret) = 2
    /\ ret[1] # ret[2]
    /\ challenger.nperm >= 1

\* C8: when sample_bits(bits) returns with bits < usize::BITS and
\* 2^bits < ORDER_U64, its result lies in [0, 2^bits); for bits = 0 it is 0.
C8_SampleBitsRange ==
    (last.op = "sample_bits" /\ ret # << >> /\ ValidBits(LastArg))
        => /\ ret[1] \in 0 .. (Pow2(LastArg) - 1)
           /\ LastArg = 0 => ret[1] = 0

\* C8 witness: sample_bits(1) drew the element 2 and returned 0.
C8_Witness ==
    /\ last.op = "sample_bits"
    /\ LastArg = 1
    /\ ret = << 0 >>
    /\ challenger.sponge_state[Len(challenger.output_buffer) + 1] = 2

\* C9 as claimed: sample_bits(bits) with bits >= usize::BITS or
\* 2^bits >= ORDER_U64 aborts instead of returning a value.
C9_Original ==
    (last.op = "sample_bits" /\ ~ValidBits(LastArg))
        => /\ challenger.panic # NoPanic
           /\ ret = << >>

\* C9 as amended: in a build that keeps debug assertions, sample_bits(bits)
\* with bits >= usize::BITS or 2^bits >= ORDER_U64 panics on its
\* precondition, returns nothing and leaves sponge_state, input_buffer and
\* output_buffer as they were.
C9_SampleBitsChecked ==
    [][ (last'.op = "sample_bits" /\ debug_assertions /\ ~ValidBits(last'.arg[1][1]))
            => /\ challenger'.panic =
                    (IF last'.arg[1][1] >= USIZE_BITS THEN AssertBitsWord
                                                      ELSE AssertBitsOrder)
               /\ ret' = << >>
               /\ Fields(challenger') = Fields(challenger)
               /\ challenger'.nperm = 0
      ]_vars

\* C9 witness: in a build with debug assertions, sample_bits was called
\* with 2^bits >= ORDER_U64 on a challenger holding buffered outputs.
C9_Witness ==
    /\ debug_assertions
    /\ last.op = "sample_bits"
    /\ LastArg < USIZE_BITS
    /\ ~ValidBits(LastArg)
    /\ challenger.panic = AssertBitsOrder
    /\ challenger.output_buffer # << >>

\* C10: with RATE = 0 no sample or sample_bits call returns a value; a sample
\* with an empty input_buffer panics because output_buffer is empty after
\* the duplexing, and a sample with buffered inputs panics on the assertion
\* of duplexing.
C10_ZeroRateAborts ==
    [][ (RATE = 0 /\ last'.op \in {"sample", "sample_bits"})
            => /\ ret' = << >>
               /\ challenger'.panic # NoPanic
               /\ last'.op = "sample"
                    => challenger'.panic =
                         (IF challenger.input_buffer = << >> THEN ExpectOutput
                                                             ELSE AssertInputLen)
      ]_vars

\* C10 witness: with RATE = 0, a sample after an observe has panicked on
\* the assertion of duplexing.
C10_Witness ==
    /\ RATE = 0
    /\ last.op = "sample"
    /\ challenger.input_buffer # << >>
    /\ challenger.panic = AssertInputLen

\* the state duplexing hands to the permutation: the buffered inputs over
\* the first positions of the sponge state, the others as they were
Overwritten(state, inputs) ==
    [i \in 1 .. Len(state) |-> IF i <= Len(inputs) THEN inputs[i] ELSE state[i]]

\* the inputs buffered when the one duplexing of the call last' started
BufferedAtDuplexing ==
    IF last'.op = "observe" THEN Append(challenger.input_buffer, last'.arg[1][1])
                            ELSE challenger.input_buffer

\* C16: a duplexing that starts with n buffered inputs b and sponge state s
\* runs the permutation on b followed by s[n .. WIDTH-1]: in every observe or
\* sample call that does not panic and permutes once, the new sponge_state
\* is the permutation of the old one overwritten in its first n positions
\* only; with n = 0 it is the permutation of the old state.
C16_DuplexingOverwritesPrefix ==
    [][ (/\ last'.op \in {"observe", "sample"}
         /\ challenger'.panic = NoPanic
         /\ challenger'.nperm = 1)
            => LET b == BufferedAtDuplexing
               IN  /\ Len(b) <= RATE
                   /\ challenger'.sponge_state =
                        permute_mut(challenger.permutation,
                                    Overwritten(challenger.sponge_state, b))
                   /\ b = << >> => challenger'.sponge_state =
                        permute_mut(challenger.permutation, challenger.sponge_state)
      ]_vars

\* C16 witness: with RATE = 2 < WIDTH and the reversing permutation, a sample
\* duplexed one buffered input; the capacity position and the unused rate
\* position entered the permutation holding non-default values, which the
\* reversal shows at the mirrored positions.
C16_Witness ==
    /\ RATE = 2
    /\ WIDTH > RATE
    /\ challenger.permutation = "reverse"
    /\ last.op = "sample"
    /\ challenger.nperm = 1
    /\ challenger.panic = NoPanic
    /\ challenger.sponge_state[1] # Default
    /\ challenger.sponge_state[WIDTH - 1] # Default
    /\ challenger.sponge_state[WIDTH] # challenger.sponge_state[WIDTH - 1]

\* output_buffer is sponge_state[0 .. m) in index order, m <= RATE
OutputIsPrefix(self) ==
    /\ Len(self.output_buffer) <= RATE
    /\ self.output_buffer = SubSeq(self.sponge_state, 1, Len(self.output_buffer))

\* C17: with RATE <= WIDTH, in every reachable state output_buffer is the
\* first m entries of sponge_state in index order, 0 <= m <= RATE.  An observe
\* that duplexed leaves m = RATE and one that did not leaves m = 0; a
\* base-field sample that did not permute returns sponge_state[m-1] and
\* leaves m - 1, one that permuted returns sponge_state[RATE-1] of the new
\* state and leaves RATE - 1; the last coordinate of any sample is the entry
\* of sponge_state just above the outputs left.
C17_OutputBufferIsPrefix ==
    /\ [](RATE <= WIDTH => OutputIsPrefix(challenger))
    /\ [][ LET m  == Len(challenger.output_buffer)
               m2 == Len(challenger'.output_buffer)
           IN  (RATE <= WIDTH /\ challenger'.panic = NoPanic)
                 => /\ (last'.op = "observe" /\ challenger'.nperm >= 1) => m2 = RATE
                    /\ (last'.op = "observe" /\ challenger'.nperm = 0) => m2 = 0
                    /\ (last'.op = "sample" /\ last'.arg[1][1] = 1 /\ challenger'.nperm = 0)
                         => /\ m >= 1
                            /\ ret' = << challenger.sponge_state[m] >>
                            /\ challenger'.sponge_state = challenger.sponge_state
                            /\ m2 = m - 1
                    /\ (last'.op = "sample" /\ last'.arg[1][1] = 1 /\ challenger'.nperm >= 1)
                         => /\ ret' = << challenger'.sponge_state[RATE] >>
                            /\ m2 = RATE - 1
                    /\ last'.op = "sample"
                         => ret'[Len(ret')] = challenger'.sponge_state[m2 + 1]
         ]_vars

\* C17 witness: RATE = 2 < WIDTH, a base-field sample took the last buffered
\* output, sponge_state[0], of a state whose entries differ from each
\* other, without permuting.
C17_Witness ==
    /\ RATE = 2
    /\ WIDTH > RATE
    /\ last.op = "sample"
    /\ LastArg = 1
    /\ challenger.nperm = 0
    /\ challenger.output_buffer = << >>
    /\ ret = << challenger.sponge_state[1] >>
    /\ challenger.sponge_state[1] # challenger.sponge_state[2]
    /\ challenger.sponge_state[1] # challenger.sponge_state[WIDTH]

\* C20: for RATE >= 1, whenever a call has returned (the process has not
\* panicked), input_buffer and output_buffer are not both non-empty, and
\* after a sample or sample_bits call input_buffer is empty.
C20_BuffersNeverBothPending ==
    (RATE >= 1 /\ challenger.panic = NoPanic)
        => /\ challenger.input_buffer # << >> => challenger.output_buffer = << >>
           /\ last.op \in {"sample", "sample_bits"} => challenger.input_buffer = << >>

\* C20 witness: an observe that did not fill the rate came after a
\* duplexing (the state is no longer the default one): it holds one
\* buffered input and no output.
C20_Witness ==
    /\ RATE >= 2
    /\ last.op = "observe"
    /\ challenger.panic = NoPanic
    /\ Len(challenger.input_buffer) = 1
    /\ challenger.nperm = 0
    /\ ~hist.alive
    /\ \E i \in 1 .. RATE : challenger.sponge_state[i] # Default
    /\ challenger.output_buffer = << >>

\* an overwrite-mode sponge absorbing the full chunks of RATE values of
\* `values`, in order: each chunk is written over state[0 .. RATE) and the
\* permutation applied; it yields the state and the values left over
RECURSIVE AbsorbChunks(_, _, _)
AbsorbChunks(permutation, state, values) ==
    IF Len(values) < RATE THEN [state |-> state, rest |-> values]
    ELSE AbsorbChunks(permutation,
                      permute_mut(permutation,
                                  Overwritten(state, SubSeq(values, 1, RATE))),
                      SubSeq(values, RATE + 1, Len(values)))

\* the sponge after the remainder too: a non-empty remainder is written over
\* state[0 .. len) and permuted; with no value at all the state is permuted
\* once; after full chunks only nothing more is done
AbsorbAll(permutation, state, values) ==
    LET full == AbsorbChunks(permutation, state, values)
    IN  IF full.rest # << >> \/ values = << >>
        THEN permute_mut(permutation, Overwritten(full.state, full.rest))
        ELSE full.state

\* C19: on a new challenger with RATE >= 1 that observed v_0 .. v_{L-1}, the
\* full chunks of RATE values have been absorbed as by an overwrite-mode
\* sponge and the remainder waits in input_buffer; after one sample
\* sponge_state is that of the sponge after the remainder too, reached by
\* ceil(L / RATE) permutations (one when L = 0).  When L is a positive
\* multiple of RATE the sample does not permute; when L = 0 it permutes the
\* all-default state once.
C19_OverwriteModeSponge ==
    LET L       == Len(hist.observed)
        default == [i \in 1 .. WIDTH |-> Default]
        full    == AbsorbChunks(challenger.permutation, default, hist.observed)
    IN  /\ (hist.alive /\ RATE >= 1 /\ hist.sampled = << >>)
            => /\ challenger.sponge_state = full.state
               /\ challenger.input_buffer = full.rest
               /\ hist.nperm = L \div RATE
        /\ (hist.alive /\ RATE >= 1 /\ Len(hist.sampled) = 1)
            => /\ challenger.sponge_state
                    = AbsorbAll(challenger.permutation, default, hist.observed)
               /\ hist.nperm = (IF L = 0 THEN 1 ELSE CeilDiv(L, RATE))
               /\ (L > 0 /\ L % RATE = 0) => challenger.nperm = 0
               /\ L % RATE # 0 => challenger.nperm = 1
               /\ L = 0 => /\ challenger.nperm = 1
                            /\ challenger.sponge_state
                                 = permute_mut(challenger.permutation, default)

\* C19 witness: with RATE = 2 < WIDTH, two full chunks and one more value,
\* not all equal, were observed and the sample has run the third
\* permutation.
C19_Witness ==
    /\ driver = "sponge"
    /\ RATE = 2
    /\ WIDTH > RATE
    /\ hist.alive
    /\ Len(hist.observed) = 2 * RATE + 1
    /\ hist.observed[1] # hist.observed[2]
    /\ Len(hist.sampled) = 1
    /\ hist.nperm = 3
    /\ challenger.nperm = 1

\* the longest run of base-field samples followed from one state: it spans
\* two full refills and one more sample
MaxRun == 2 * MaxWidth + 1

\* the permutations n consecutive base-field samples need when they start
\* with m buffered outputs and no buffered input
ExpectedPermutations(n, m) == CeilDiv(Max(n - m, 0), RATE)

\* C18: for RATE >= 1, a base-field sample runs the permutation (once) if
\* and only if it finds input_buffer non-empty or output_buffer empty.  Hence
\* from every state with an empty input_buffer and m buffered outputs, n
\* base-field samples in a row run it ceil(max(n - m, 0) / RATE) times, be
\* they the coordinates of one sample call or n calls; and the sample that
\* follows the observe which filled input_buffer to RATE (and so duplexed)
\* returns first sponge_state[RATE-1] of the state that observe left,
\* without permuting as long as it takes at most RATE elements.
C18_WhenSamplePermutes ==
    /\ []((RATE >= 1 /\ challenger.panic = NoPanic /\ challenger.input_buffer = << >>)
            => \A n \in 0 .. MaxRun :
                 SampleEach(challenger, n).nperm
                    = ExpectedPermutations(n, Len(challenger.output_buffer)))
    /\ [][ (RATE >= 1 /\ last'.op = "sample")
            => LET d == last'.arg[1][1]
                   m == Len(challenger.output_buffer)
               IN  /\ d = 1 => /\ challenger'.nperm \in {0, 1}
                                /\ challenger'.nperm = 1
                                      <=> (\/ challenger.input_buffer # << >>
                                           \/ challenger.output_buffer = << >>)
                   /\ challenger.input_buffer = << >>
                        => challenger'.nperm = ExpectedPermutations(d, m)
                   /\ (last.op = "observe" /\ challenger.nperm = 1)
                        => /\ ret'[1] = challenger.sponge_state[RATE]
                           /\ d <= RATE => challenger'.nperm = 0
         ]_vars

\* C18 witness: on a new challenger with RATE >= 2, RATE observes (the last
\* of which duplexed) were followed by one base-field sample, which did not
\* permute and returned a non-default element.
C18_Witness ==
    /\ RATE >= 2
    /\ hist.alive
    /\ Len(hist.observed) = RATE
    /\ hist.nperm = 1
    /\ last.op = "sample"
    /\ LastArg = 1
    /\ hist.sampled = ret
    /\ challenger.nperm = 0
    /\ ret = << challenger.sponge_state[RATE] >>
    /\ ret[1] # Default

-----------------------------------------------------------------------------
(* The scalar field the internal layer is compared with: integers mod P,  *)
(* written canonically and computed without leaving 32 bits               *)

AddMod(a, b) == IF a >= P - b THEN a - (P - b) ELSE a + b

SubMod(a, b) == IF a >= b THEN a - b ELSE a + (P - b)

NegMod(a) == IF a = 0 THEN 0 ELSE P - a

\* the canonical representative of a word in (-P, P)
Canon(w) == IF w < 0 THEN w + P ELSE w

\* num * a mod P, num >= 1
RECURSIVE MulSmall(_, _)
MulSmall(num, a) == IF num = 1 THEN a ELSE AddMod(MulSmall(num - 1, a), a)

\* 2^n * a mod P
RECURSIVE Doubled(_, _)
Doubled(a, n) == IF n = 0 THEN a ELSE Doubled(AddMod(a, a), n - 1)

\* the canonical y is d * x mod P for the entry d = sign * num / 2^shift:
\* 2^shift * y = sign * num * x
IsProduct(d, x, y) ==
    Doubled(y, d.shift) = (IF d.sign = 1 THEN MulSmall(d.num, x)
                                         ELSE NegMod(MulSmall(d.num, x)))

\* the entry of the positive magnitude of d
Magnitude(d) == [d EXCEPT !.sign = 1]

\* the diagonal entry of input[k] (1-based): the first state element, and
\* with it the first entry of D, is not in the array
DiagonalEntry(k) == IF WIDTH = 16 THEN D16[k + 1] ELSE D24[k + 1]

\* the lanes and the words of the array under study
LaneIndices == 1 .. (WIDTH - 1)
WordIndices == 1 .. LANES

\* a word is in (-P, P)
InOpenRange(w) == -P < w /\ w < P

\* C11: for width 16 and width 24, canonical lanes x and a canonical sum,
\* diagonal_mul followed by add_sum leaves in every word of lane i the
\* canonical value of D[i] * x[i] + sum mod P, D[i] being the entry of the
\* lane (the array starts at the second state element): the word is in
\* [0, P), and what it exceeds the sum by is D[i] * x[i].
C11_DiagonalLayerEqualsScalar ==
    (driver = "layer" /\ layer.pc = "summed" /\ Canonical(layer.x))
        => \A k \in LaneIndices : \A j \in WordIndices :
             LET out == layer.input[k][j]
             IN  /\ out >= 0
                 /\ out < P
                 /\ IsProduct(DiagonalEntry(k), layer.x[k][j],
                              SubMod(out, layer.sum[j]))

\* C11 witness: for width 24 the last lane (entry -1/2^24) of a canonical
\* input above 1 was added to a sum that it carried past P.
C11_Witness ==
    /\ driver = "layer"
    /\ layer.pc = "summed"
    /\ Canonical(layer.x)
    /\ WIDTH = 24
    /\ layer.x[23][1] > 1
    /\ layer.input[23][1] < layer.sum[1]

\* the value of the 2^-8 routine on the canonical word x, computed exactly
Exact2ExpNeg8(x) == (x \div 256) - ((ODD_FACTOR * (x % 256)) * 65536)

C13_Original ==
    (driver = "layer" /\ layer.pc = "multiplied" /\ Canonical(layer.x))
        => \A k \in LaneIndices : \A j \in WordIndices :
             /\ InOpenRange(layer.input[k][j])
             /\ IsProduct(DiagonalEntry(k), layer.x[k][j], Canon(layer.input[k][j]))

\* C13 as amended: for canonical input, diagonal_mul leaves every lane in
\* (-P, P); the lanes of the entries -1/2, -3 and -4 (input[5 .. 7]) hold
\* the product with the positive magnitude 1/2, 3, 4 and every other lane
\* holds a value congruent to D[i] * input[i].
C13_DiagonalMulResult ==
    (driver = "layer" /\ layer.pc = "multiplied" /\ Canonical(layer.x))
        => \A k \in LaneIndices : \A j \in WordIndices :
             LET d == DiagonalEntry(k)
             IN  /\ InOpenRange(layer.input[k][j])
                 /\ IsProduct(IF k \in 6 .. 8 THEN Magnitude(d) ELSE d,
                              layer.x[k][j], Canon(layer.input[k][j]))

\* C13 witness: for width 24, diagonal_mul turned the word 1 into 3 in the
\* lane of the entry -3 and into a negative word in the lane of 1/64.
C13_Witness ==
    /\ driver = "layer"
    /\ layer.pc = "multiplied"
    /\ Canonical(layer.x)
    /\ WIDTH = 24
    /\ layer.x[7][1] = 1
    /\ layer.input[7][1] = 3
    /\ layer.x[18][2] = 1
    /\ layer.input[18][2] < 0

\* C14: in both widths add_sum, given what diagonal_mul made of a canonical
\* input, finds in input[0 .. 4] the canonical product of a positive entry
\* and adds it to the sum, in input[5 .. 7] the canonical product of the
\* positive magnitude of a negative entry and subtracts it from the sum, and
\* from input[8] on a signed product in (-P, P), which it adds to the sum as
\* a signed word (the sum, the first operand, being the non-negative one).
C14_DeferredSignGrouping ==
    [][ (driver = "layer" /\ layer.pc = "multiplied" /\ layer'.pc = "summed"
            /\ Canonical(layer.x))
          => \A k \in LaneIndices : \A j \in WordIndices :
               LET d   == DiagonalEntry(k)
                   x   == layer.x[k][j]
                   y   == layer.input[k][j]
                   s   == layer.sum[j]
                   out == layer'.input[k][j]
               IN  /\ k \in 1 .. 5
                        => /\ d.sign = 1
                           /\ y >= 0 /\ y < P
                           /\ IsProduct(d, x, y)
                           /\ out = AddMod(s, y)
                   /\ k \in 6 .. 8
                        => /\ d.sign = -1
                           /\ y >= 0 /\ y < P
                           /\ IsProduct(Magnitude(d), x, y)
                           /\ out = SubMod(s, y)
                   /\ k >= 9
                        => /\ InOpenRange(y)
                           /\ IsProduct(d, x, Canon(y))
                           /\ s >= 0
                           /\ out = AddMod(s, Canon(y))
      ]_vars

\* C14 witness: for width 16, add_sum has subtracted the magnitude 4 * 1 from
\* the sum 0 in input[7] and added the negative word of 1/8 to the sum 0
\* in input[10].
C14_Witness ==
    /\ driver = "layer"
    /\ layer.pc = "summed"
    /\ Canonical(layer.x)
    /\ WIDTH = 16
    /\ layer.sum[1] = 0
    /\ layer.x[8][2] = 1
    /\ layer.input[8][2] = P - 4
    /\ layer.x[11][1] = 1
    /\ layer.input[11][1] = P - 127 * 2097152

\* C15 as claimed: diagonal_mul called with a lane outside [0, P) aborts.
C15_Original ==
    (driver = "layer" /\ ~Canonical(layer.x) /\ layer.pc # "start")
        => layer.pc = "aborted"

\* C15 as amended: diagonal_mul does not check its precondition.  Called
\* with a lane outside [0, P) it returns an array all the same, in which
\* the lane multiplied by 1 is the non-canonical lane it was given, and
\* add_sum runs on that array.
C15_UncheckedPrecondition ==
    (driver = "layer" /\ ~Canonical(layer.x) /\ layer.pc # "start")
        => /\ layer.pc \in {"multiplied", "summed"}
           /\ Len(layer.input) = WIDTH - 1
           /\ layer.pc = "multiplied" => layer.input[1] = layer.x[1]

\* C15 witness: the lanes held the word 2^32 - 1; diagonal_mul has returned,
\* the lane multiplied by 1 still holds that word and the lane of 1/2^8
\* holds what the routine makes of it.
C15_Witness ==
    /\ driver = "layer"
    /\ layer.pc = "multiplied"
    /\ layer.x[1][1] = -1
    /\ layer.input[1][1] = -1
    /\ layer.x[9][1] = -1
    /\ layer.input[9][1] = (16777216 - 1) - 127 * 255 * 65536

\* C21: a single-value observe whose push leaves input_buffer shorter than
\* RATE runs no permutation and leaves sponge_state as it was; output_buffer
\* is empty after it, input_buffer is what it was with the value appended,
\* and no panic is raised.  No call changes the permutation instance:
\* neither an observe, a sample or a sample_bits that is made, nor the
\* observation of an array, a digest or a vector of vectors that could be
\* made next.
C21_NonFillingObserveFrame ==
    /\ [][ /\ (last'.op = "observe" /\ Len(challenger.input_buffer) + 1 < RATE)
                => /\ challenger'.nperm = 0
                   /\ challenger'.sponge_state = challenger.sponge_state
                   /\ challenger'.output_buffer = << >>
                   /\ challenger'.input_buffer =
                          Append(challenger.input_buffer, last'.arg[1][1])
                   /\ Len(challenger'.input_buffer) < RATE
                   /\ challenger'.panic = NoPanic
            /\ challenger'.permutation = challenger.permutation
          ]_vars
    /\ [](\A v \in Elements :
            /\ observe_array(challenger, << v, v >>).permutation = challenger.permutation
            /\ observe_hash(challenger, << v, v >>).permutation = challenger.permutation
            /\ observe_vecvec(challenger, << << v >>, << v >> >>).permutation
                    = challenger.permutation)

\* C21 witness: with RATE >= 2 an observe pushed the first value of a chunk
\* onto a challenger whose state had been permuted to something other than
\* the defaults, and ran no permutation.
C21_Witness ==
    /\ driver = "any"
    /\ RATE >= 2
    /\ last.op = "observe"
    /\ Len(challenger.input_buffer) = 1
    /\ challenger.output_buffer = << >>
    /\ challenger.nperm = 0
    /\ \E i \in 1 .. WIDTH : challenger.sponge_state[i] # Default
    /\ challenger.permutation = "rotate_add"

\* C22: for bits < usize::BITS with 2^bits < ORDER_U64, sample_bits(bits)
\* leaves sponge_state, input_buffer and output_buffer, the panic and the
\* number of permutations run exactly as one base-field sample call on the
\* same challenger leaves them, whatever bits is; when that sample returns
\* an element, sample_bits returns the canonical representative of that
\* element modulo 2^bits, and when it panics, sample_bits returns nothing.
C22_SampleBitsConsumesOne ==
    [][ (last'.op = "sample_bits" /\ ValidBits(last'.arg[1][1]))
            => LET bits == last'.arg[1][1]
                   one  == sample(Enter(challenger), 1)
               IN  /\ Fields(challenger') = Fields(one.self)
                   /\ challenger'.panic = one.self.panic
                   /\ challenger'.nperm = one.self.nperm
                   /\ challenger'.permutation = one.self.permutation
                   /\ ret' = (IF one.self.panic = NoPanic
                              THEN << as_canonical_u64(one.value[1]) % Pow2(bits) >>
                              ELSE << >>)
                   /\ \A other \in 0 .. MaxBits :
                        ValidBits(other)
                            => sample_bits(Enter(challenger), other).self = challenger'
      ]_vars

\* C22 witness: in a build without debug assertions, sample_bits(1) ran one
\* permutation, took the one element 2 off a refilled output_buffer of at
\* least two elements and returned 2 mod 2 = 0.
C22_Witness ==
    /\ last.op = "sample_bits"
    /\ LastArg = 1
    /\ ~debug_assertions
    /\ RATE >= 2
    /\ challenger.nperm = 1
    /\ Len(challenger.output_buffer) = RATE - 1
    /\ challenger.sponge_state[RATE] = 2
    /\ ret = << 0 >>

=============================================================================
